---- MODULE Spec2Model ----
(***************************************************************************)
(* A model of the forecast orchestration layer (forecast.py) and of the    *)
(* Enphase OAuth2 telemetry client (inverters/enphase.py).                 *)
(*                                                                         *)
(* Instants are whole seconds since an epoch that lies on a 15-minute      *)
(* boundary.  Text is a sequence of one-character strings, except that a   *)
(* run of characters none of the code's patterns can match inside is kept  *)
(* as one piece.                                                           *)
(***************************************************************************)
EXTENDS Integers, Sequences, FiniteSets, TLC

VARIABLES
    \* ---- enphase.py: one get_enphase_data call at a time ----
    epc,            \* position of the running call ("idle": no call)
    ncalls,         \* number of get_enphase_data calls started so far
    auth_url,       \* local auth_url of get_enphase_access_token
    redirect_url,   \* the text the human pasted (input())
    auth_code,      \* local auth_code
    res,            \* the token endpoint's answer (locals res and data)
    access_token,   \* local access_token
    eret,           \* what the call returned or raised
    log,            \* history: every step taken, tagged with its call
    \* ---- forecast.py: one run_forecast call at a time ----
    fpc,            \* position of the running call ("idle": no call)
    args,           \* the arguments of run_forecast
    ts,             \* predict_ocf's local ts after lines 22-26
    start_date,     \* predict_tryolabs' locals
    start_time,
    end_time,
    now_read,       \* the clock value read to resolve an absent ts
    predictions,    \* what the provider handed back
    calls,          \* collaborators invoked by this run_forecast call
    fret            \* what run_forecast returned or raised

evars == <<epc, ncalls, auth_url, redirect_url, auth_code, res, access_token, eret, log>>
fvars == <<fpc, args, ts, start_date, start_time, end_time, now_read,
           predictions, calls, fret>>
vars == <<evars, fvars>>

----------------------------------------------------------------------------
(* Bounds of the model *)

\* get_enphase_data calls in one behaviour
MaxCalls == 2
\* rows of a frame returned by a provider (the compliant 48 h frame apart)
MaxRawLen == 2

----------------------------------------------------------------------------
(* Python text operations *)

Min(S) == CHOOSE x \in S : \A y \in S : x <= y

\* str.find: the first position where pat occurs in s, 0 when it does not
Find(s, pat) ==
    LET hits == {i \in 1..(Len(s) - Len(pat) + 1) :
                    SubSeq(s, i, i + Len(pat) - 1) = pat}
    IN  IF hits = {} THEN 0 ELSE Min(hits)

RECURSIVE Split(_, _)
\* str.split(pat): the pieces between the occurrences of pat, left to right
Split(s, pat) ==
    LET i == Find(s, pat)
    IN  IF i = 0 THEN <<s>>
        ELSE <<SubSeq(s, 1, i - 1)>> \o Split(SubSeq(s, i + Len(pat), Len(s)), pat)

RECURSIVE Join(_, _)
\* sep.join(parts)
Join(parts, sep) ==
    IF parts = <<>> THEN <<>>
    ELSE IF Len(parts) = 1 THEN parts[1]
    ELSE parts[1] \o sep \o Join(Tail(parts), sep)

RECURSIVE Quote(_)
\* urllib.parse.quote_plus on the characters that occur here
Quote(s) ==
    IF s = <<>> THEN <<>>
    ELSE (CASE s[1] = ":" -> <<"%", "3", "A">>
            [] s[1] = "/" -> <<"%", "2", "F">>
            [] OTHER      -> <<s[1]>>) \o Quote(Tail(s))

\* urllib.parse.urlencode of a list of (key, value) pairs
UrlEncode(params) ==
    Join([i \in 1..Len(params) |->
            Quote(params[i][1]) \o <<"=">> \o Quote(params[i][2])], <<"&">>)

----------------------------------------------------------------------------
(* enphase.py: configuration and wire constants *)

None == <<"None">>

ClientId == <<"my-client-id">>
SystemIds == {<<"1234567">>}

RedirectUri ==
    <<"https", ":", "/", "/", "api.enphaseenergy.com", "/", "oauth", "/", "redirect_uri">>

CodePattern == <<"?", "c", "o", "d", "e", "=">>

\* get_enphase_auth_url
GetEnphaseAuthUrl ==
    <<"https://api.enphaseenergy.com/oauth/authorize?">>
    \o UrlEncode(<< <<<<"response_type">>, <<"code">>>>,
                    <<<<"client_id">>, ClientId>>,
                    <<<<"redirect_uri">>, RedirectUri>> >>)

----------------------------------------------------------------------------
(* What the human can paste: the redirect URI followed by a query string *)

CodeABC == <<"A", "B", "C", "1", "2", "3">>
CodeZ == <<"Z", "9">>
Codes == {CodeABC, CodeZ}

CodeParam(c) == [key |-> <<"c", "o", "d", "e">>, val |-> c]
StateParam == [key |-> <<"s", "t">>, val |-> <<"x">>]

\* The query strings of the pasted URL, as lists of parameters
QueryParams ==
    {<<>>, <<StateParam>>}
    \cup {<<CodeParam(c)>> : c \in Codes}
    \cup {<<CodeParam(CodeABC), StateParam>>, <<StateParam, CodeParam(CodeABC)>>}

\* The text of a URL with the given query parameters
UrlText(ps) ==
    RedirectUri
    \o (IF ps = <<>> THEN <<>>
        ELSE <<"?">> \o Join([i \in 1..Len(ps) |->
                                ps[i].key \o <<"=">> \o ps[i].val], <<"&">>))

RedirectUrls == {UrlText(ps) : ps \in QueryParams}

\* The value of the code= query parameter of a pasted URL, None when it has none
CodeOf(url) ==
    LET ps == CHOOSE q \in QueryParams : UrlText(q) = url
        at == {i \in 1..Len(ps) : ps[i].key = CodeParam(<<>>).key}
    IN  IF at = {} THEN None ELSE ps[Min(at)].val

----------------------------------------------------------------------------
(* enphase.py: the steps of get_enphase_data *)

Raise(type, payload) == [kind |-> "raise", type |-> type, payload |-> payload]
Return(v) == [kind |-> "return", value |-> v]
Unset == [kind |-> "unset"]

\* get_enphase_authorization_code, line 48: redirect_url.split("?code=")[1]
ExtractCode(url) ==
    LET parts == Split(url, CodePattern)
    IN  IF Len(parts) < 2 THEN Raise("IndexError", <<"list index out of range">>)
        ELSE Return(parts[2])

\* The answers of the token endpoint: an HTTP status and a raw body
Tokens == {<<"T1">>, <<"T2">>}
TokenResponses ==
    {[status |-> 200, body |-> "{\"access_token\": \"T1\"}"],
     [status |-> 200, body |-> "{\"access_token\": \"T2\"}"],
     [status |-> 200, body |-> "{\"error\": \"invalid_grant\"}"],
     [status |-> 400, body |-> "{\"error\": \"invalid_grant\"}"],
     [status |-> 401, body |-> "{\"access_token\": \"T1\"}"],
     [status |-> 502, body |-> "<html>Bad Gateway</html>"]}

\* The answers of the live-data endpoint
LiveBodies ==
    {"{\"current_power\": {\"power\": 350}}", "{\"current_power\": {\"energy\": 0}}",
     "{\"message\": \"Not Found\"}"}

\* json.loads on the bodies above
JsonLoads(body) ==
    CASE body = "{\"access_token\": \"T1\"}" -> Return([access_token |-> <<"T1">>])
      [] body = "{\"access_token\": \"T2\"}" -> Return([access_token |-> <<"T2">>])
      [] body = "{\"error\": \"invalid_grant\"}" -> Return([error |-> <<"invalid_grant">>])
      [] body = "{\"current_power\": {\"power\": 350}}" ->
            Return([current_power |-> [power |-> 350]])
      [] body = "{\"current_power\": {\"energy\": 0}}" -> Return([current_power |-> [energy |-> 0]])
      [] body = "{\"message\": \"Not Found\"}" -> Return([message |-> <<"Not Found">>])
      [] OTHER -> Raise("JSONDecodeError", <<"Expecting value">>)

\* A lookup d[key] that finds nothing maps to None
ReadTokenLenient(resp) ==
    LET j == JsonLoads(resp.body)
    IN  IF j.kind = "raise" THEN j
        ELSE IF "access_token" \in DOMAIN j.value
             THEN Return(j.value.access_token)
             ELSE Return(None)

\* get_enphase_access_token, lines 89-102: the status is not looked at
ReadToken(resp) ==
    LET j == JsonLoads(resp.body)
    IN  IF j.kind = "raise" THEN j
        ELSE IF "access_token" \in DOMAIN j.value
             THEN Return(j.value.access_token)
             ELSE Raise("KeyError", <<"access_token">>)

\* get_enphase_data, lines 124-138
ReadLive(body) ==
    LET j == JsonLoads(body)
    IN  IF j.kind = "raise" THEN j
        ELSE IF "current_power" \notin DOMAIN j.value
             THEN Raise("KeyError", <<"current_power">>)
        ELSE IF "power" \notin DOMAIN j.value.current_power
             THEN Raise("KeyError", <<"power">>)
        ELSE Return(j.value.current_power.power)

\* A client that asks the token endpoint again after a failed exchange
GotoRetry(pc, ok) ==
    CASE pc = "get_enphase_auth_url" -> "input"
      [] pc = "input"          -> IF ok THEN "token_request" ELSE "raised"
      [] pc = "token_request"  -> "token_response"
      [] pc = "token_response" -> IF ok THEN "live_request" ELSE "token_request"
      [] pc = "live_request"   -> "live_response"
      [] pc = "live_response"  -> IF ok THEN "returned" ELSE "raised"

\* The control flow of get_enphase_data: straight down, an exception ends the call
Goto(pc, ok) ==
    CASE pc = "get_enphase_auth_url" -> "input"
      [] pc = "input"          -> IF ok THEN "token_request" ELSE "raised"
      [] pc = "token_request"  -> "token_response"
      [] pc = "token_response" -> IF ok THEN "live_request" ELSE "raised"
      [] pc = "live_request"   -> "live_response"
      [] pc = "live_response"  -> IF ok THEN "returned" ELSE "raised"

Event(kind, val) == [call |-> ncalls, kind |-> kind, val |-> val]

\* get_enphase_data(enphase_system_id) is called: a fresh frame
CallGetEnphaseData(sys) ==
    /\ epc = "idle"
    /\ fpc = "idle"
    /\ ncalls < MaxCalls
    /\ ncalls' = ncalls + 1
    /\ epc' = "get_enphase_auth_url"
    /\ auth_url' = None
    /\ redirect_url' = None
    /\ auth_code' = None
    /\ res' = Unset
    /\ access_token' = None
    /\ eret' = Unset
    /\ log' = Append(log, [call |-> ncalls + 1, kind |-> "call", val |-> sys])
    /\ UNCHANGED fvars

\* line 62: the authorization URL is built, no request is made
BuildAuthUrl ==
    /\ epc = "get_enphase_auth_url"
    /\ auth_url' = GetEnphaseAuthUrl
    /\ log' = Append(log, Event("auth_url", GetEnphaseAuthUrl))
    /\ epc' = Goto(epc, TRUE)
    /\ UNCHANGED <<ncalls, redirect_url, auth_code, res, access_token, eret>>
    /\ UNCHANGED fvars

\* lines 46-49: the human pastes the redirect URL, the code is cut out of it
PasteRedirectUrl(url) ==
    /\ epc = "input"
    /\ redirect_url' = url
    /\ LET r == ExtractCode(url)
       IN  /\ epc' = Goto(epc, r.kind = "return")
           /\ IF r.kind = "return"
              THEN /\ auth_code' = r.value
                   /\ log' = Append(log, Event("code", r.value))
                   /\ eret' = eret
              ELSE /\ auth_code' = auth_code
                   /\ log' = log
                   /\ eret' = r
    /\ UNCHANGED <<ncalls, auth_url, res, access_token>>
    /\ UNCHANGED fvars

\* lines 78-88: POST /oauth/token?...&code={auth_code}
PostToken ==
    /\ epc = "token_request"
    /\ log' = Append(log, Event("POST", auth_code))
    /\ epc' = Goto(epc, TRUE)
    /\ UNCHANGED <<ncalls, auth_url, redirect_url, auth_code, res, access_token, eret>>
    /\ UNCHANGED fvars

\* lines 89-102: the token endpoint answers
TokenResponse(resp) ==
    /\ epc = "token_response"
    /\ res' = resp
    /\ LET r == ReadToken(resp)
       IN  /\ epc' = Goto(epc, r.kind = "return")
           /\ IF r.kind = "return"
              THEN /\ access_token' = r.value
                   /\ log' = Append(log, Event("token", r.value))
                   /\ eret' = eret
              ELSE /\ access_token' = access_token
                   /\ log' = log
                   /\ eret' = r
    /\ UNCHANGED <<ncalls, auth_url, redirect_url, auth_code>>
    /\ UNCHANGED fvars

\* lines 118-123: GET /api/v4/systems/{id}/live_data with the bearer token
GetLiveData ==
    /\ epc = "live_request"
    /\ log' = Append(log, Event("GET", access_token))
    /\ epc' = Goto(epc, TRUE)
    /\ UNCHANGED <<ncalls, auth_url, redirect_url, auth_code, res, access_token, eret>>
    /\ UNCHANGED fvars

\* lines 124-138: the live-data endpoint answers
LiveResponse(body) ==
    /\ epc = "live_response"
    /\ LET r == ReadLive(body)
       IN  /\ epc' = Goto(epc, r.kind = "return")
           /\ eret' = r
    /\ log' = Append(log, Event("data", <<body>>))
    /\ UNCHANGED <<ncalls, auth_url, redirect_url, auth_code, res, access_token>>
    /\ UNCHANGED fvars

\* the call is over: its frame is gone, the caller holds eret
EndGetEnphaseData ==
    /\ epc \in {"returned", "raised"}
    /\ epc' = "idle"
    /\ auth_url' = None
    /\ redirect_url' = None
    /\ auth_code' = None
    /\ res' = Unset
    /\ access_token' = None
    /\ UNCHANGED <<ncalls, eret, log>>
    /\ UNCHANGED fvars


----------------------------------------------------------------------------
(* forecast.py: time *)

FifteenMin == 15 * 60
Horizon == 48 * 3600
Day == 24 * 3600

\* pd.Timestamp.floor("15min")
Floor15(t) == t - (t % FifteenMin)

\* pd.Timestamp.round("15min"): to the nearest multiple, a tie to the even one
Round15(t) ==
    LET q == t \div FifteenMin
        r == t % FifteenMin
    IN  IF 2 * r < FifteenMin THEN q * FifteenMin
        ELSE IF 2 * r > FifteenMin THEN (q + 1) * FifteenMin
        ELSE IF q % 2 = 0 THEN q * FifteenMin
        ELSE (q + 1) * FifteenMin

\* strftime("%Y-%m-%d") for the days the model reaches
DateText(t) ==
    CASE t \div Day = 0 -> "1970-01-01"
      [] t \div Day = 1 -> "1970-01-02"
      [] OTHER          -> "1970-01-03"

At(t) == [kind |-> "instant", t |-> t]

TwoDigits ==
    [s \in {"00", "07", "15", "22", "30", "61"} |->
        CASE s = "00" -> 0 [] s = "07" -> 7 [] s = "15" -> 15
          [] s = "22" -> 22 [] s = "30" -> 30 [] s = "61" -> 61]

\* datetime.fromisoformat / pd.Timestamp(str) on YYYY-MM-DDTHH:MM:SS
FromIsoFormat(text) ==
    IF /\ Len(text) = 7
       /\ text[1] = "1970-01-01" /\ text[2] = "T" /\ text[4] = ":" /\ text[6] = ":"
       /\ {text[3], text[5], text[7]} \subseteq DOMAIN TwoDigits
       /\ TwoDigits[text[3]] < 24 /\ TwoDigits[text[5]] < 60 /\ TwoDigits[text[7]] < 60
    THEN Return(TwoDigits[text[3]] * 3600 + TwoDigits[text[5]] * 60 + TwoDigits[text[7]])
    ELSE Raise("ValueError", <<"Invalid isoformat string">>)

----------------------------------------------------------------------------
(* forecast.py: the inputs of run_forecast *)

Site == [latitude |-> "51.75", longitude |-> "-1.25", capacity_kwp |-> "1.25",
         orientation |-> 180, tilt |-> 35]

KnownModels == {"ocf", "tryolabs"}
Models == KnownModels \cup {"bogus", "OCF"}
NwpSources == {"icon", "gfs"}

\* what the clock can read
Nows == {450, 1351, 1799}

TsNone == [kind |-> "none"]
TsGiven ==
    {[kind |-> "datetime", t |-> t] : t \in {900, 1350}}
    \cup {[kind |-> "str", text |-> <<"1970-01-01", "T", "00", ":", "07", ":", "30">>],
          [kind |-> "str", text |-> <<"1970-01-01", "T", "00", ":", "61", ":", "00">>]}
Timestamps == {TsNone} \cup TsGiven

\* the instants and values a provider's rows can carry
RawDates == {0, 899, 900, 900 + Horizon - 1, 900 + Horizon}
Powers == {0, 5}

RECURSIVE SeqsUpTo(_, _)
SeqsUpTo(S, n) ==
    IF n = 0 THEN {<<>>}
    ELSE LET shorter == SeqsUpTo(S, n - 1)
         IN  shorter \cup {Append(q, x) : q \in shorter, x \in S}

\* predict_power_output: a frame with a date column under a 0..n-1 index, or None
NoPredictions == [kind |-> "none"]
TryolabsFrames ==
    {[kind |-> "frame",
      rows |-> [i \in 1..Len(q) |->
                  [idx |-> i - 1, date |-> q[i][1], power_wh |-> q[i][2]]]] :
        q \in SeqsUpTo(RawDates \X Powers, MaxRawLen)}
TryolabsOutputs == TryolabsFrames \cup {NoPredictions}

\* the frame that covers [t, t + 48 h) in 15-minute steps
FullFrame(t) ==
    [kind |-> "frame",
     rows |-> [i \in 1..(Horizon \div FifteenMin) |->
                 [idx |-> t + (i - 1) * FifteenMin, power_wh |-> 0]]]

\* forecast_v1: a frame indexed by instant; the core does not fix which
OcfOutputs(t) ==
    {[kind |-> "frame",
      rows |-> [i \in 1..Len(q) |-> [idx |-> q[i][1], power_wh |-> q[i][2]]]] :
        q \in SeqsUpTo(RawDates \X Powers, MaxRawLen)}
    \cup {FullFrame(t)}

----------------------------------------------------------------------------
(* forecast.py: run_forecast, predict_ocf, predict_tryolabs *)

UnsupportedMessage(model) ==
    <<"Unsupported model: ", model, ". Choose between '", "tryolabs", "' and '", "ocf", "'">>

\* a dispatch that falls back to the default model
DispatchDefault(model) ==
    IF model = "tryolabs" THEN "predict_tryolabs" ELSE "predict_ocf"

\* run_forecast, lines 103-109
Dispatch(model) ==
    IF model = "ocf" THEN "predict_ocf"
    ELSE IF model = "tryolabs" THEN "predict_tryolabs"
    ELSE "raised"

\* a window that keeps its end
InWindowClosed(d, s, e) == s <= d /\ d <= e

\* line 77: (date >= start_time) & (date < end_time)
InWindow(d, s, e) == s <= d /\ d < e

RECURSIVE Filter(_, _, _)
\* lines 76-78: boolean-mask selection, the rows kept in their order
Filter(rows, s, e) ==
    IF rows = <<>> THEN <<>>
    ELSE (IF InWindow(rows[1].date, s, e) THEN <<rows[1]>> ELSE <<>>)
         \o Filter(Tail(rows), s, e)

\* line 79: reset_index(drop=True)
ResetIndex(rows) ==
    [i \in 1..Len(rows) |-> [rows[i] EXCEPT !.idx = i - 1]]

\* line 80: set_index("date"): the date column becomes the index
SetIndexDate(rows) ==
    [i \in 1..Len(rows) |-> [idx |-> rows[i].date, power_wh |-> rows[i].power_wh]]

\* a postprocessing without the None guard: an absent result becomes an empty frame
PostprocessUnguarded(p, s, e) ==
    [kind |-> "return",
     value |-> [kind |-> "frame",
                rows |-> IF p.kind = "none" THEN <<>>
                         ELSE SetIndexDate(ResetIndex(Filter(p.rows, s, e)))]]

\* lines 75-82: the frame is windowed; with None the function falls off its end
Postprocess(p, s, e) ==
    IF p.kind # "none"
    THEN Return([kind |-> "frame",
                 rows |-> SetIndexDate(ResetIndex(Filter(p.rows, s, e)))])
    ELSE Return(NoPredictions)

\* no call is running: the defaults of run_forecast's signature
NoArgs == [model |-> "ocf", ts |-> TsNone, nwp_source |-> "icon"]

CallOf(fn, a) == [fn |-> fn, args |-> a]

\* run_forecast(site, model, ts, nwp_source) is called and dispatches
RunForecast(model, t, nwp) ==
    /\ fpc = "idle"
    /\ epc = "idle"
    /\ args' = [model |-> model, ts |-> t, nwp_source |-> nwp]
    /\ fpc' = Dispatch(model)
    /\ fret' = IF Dispatch(model) = "raised"
               THEN Raise("ValueError", UnsupportedMessage(model))
               ELSE Unset
    /\ ts' = Unset
    /\ start_date' = Unset
    /\ start_time' = Unset
    /\ end_time' = Unset
    /\ now_read' = Unset
    /\ predictions' = Unset
    /\ calls' = <<>>
    /\ UNCHANGED evars

\* predict_ocf, lines 22-26
OcfResolveTs(now) ==
    /\ fpc = "predict_ocf"
    /\ \/ /\ args.ts.kind = "none"
          /\ ts' = At(Round15(now))
          /\ now_read' = At(now)
          /\ fpc' = "get_nwp"
          /\ fret' = fret
       \/ /\ args.ts.kind = "datetime"
          /\ ts' = At(args.ts.t)
          /\ fpc' = "get_nwp"
          /\ UNCHANGED <<now_read, fret>>
       \/ /\ args.ts.kind = "str"
          /\ LET r == FromIsoFormat(args.ts.text)
             IN  IF r.kind = "return"
                 THEN ts' = At(r.value) /\ fpc' = "get_nwp" /\ fret' = fret
                 ELSE ts' = ts /\ fpc' = "raised" /\ fret' = r
          /\ UNCHANGED now_read
    /\ UNCHANGED <<args, start_date, start_time, end_time, predictions, calls>>
    /\ UNCHANGED evars

\* predict_ocf, line 29: get_nwp(site, ts, nwp_source); its failures propagate
OcfGetNwp(ok) ==
    /\ fpc = "get_nwp"
    /\ calls' = Append(calls, CallOf("get_nwp", <<Site, ts, args.nwp_source>>))
    /\ fpc' = IF ok THEN "make_pv_data" ELSE "raised"
    /\ fret' = IF ok THEN fret ELSE Raise("CollaboratorError", <<"get_nwp">>)
    /\ UNCHANGED <<args, ts, start_date, start_time, end_time, now_read, predictions>>
    /\ UNCHANGED evars

\* predict_ocf, line 30: make_pv_data(site, ts)
OcfMakePvData(ok) ==
    /\ fpc = "make_pv_data"
    /\ calls' = Append(calls, CallOf("make_pv_data", <<Site, ts>>))
    /\ fpc' = IF ok THEN "forecast_v1" ELSE "raised"
    /\ fret' = IF ok THEN fret ELSE Raise("CollaboratorError", <<"make_pv_data">>)
    /\ UNCHANGED <<args, ts, start_date, start_time, end_time, now_read, predictions>>
    /\ UNCHANGED evars

\* predict_ocf, lines 33-35: pred_df is returned as forecast_v1 made it
OcfForecastV1 ==
    /\ fpc = "forecast_v1"
    /\ calls' = Append(calls, CallOf("forecast_v1", <<args.nwp_source, ts>>))
    /\ \E pred_df \in OcfOutputs(ts.t) :
          /\ predictions' = pred_df
          /\ fret' = Return(pred_df)
    /\ fpc' = "returned"
    /\ UNCHANGED <<args, ts, start_date, start_time, end_time, now_read>>
    /\ UNCHANGED evars

\* predict_tryolabs, lines 49-52: the predictor is made and its model loaded
TryolabsLoadModel ==
    /\ fpc = "predict_tryolabs"
    /\ calls' = calls \o <<CallOf("TryolabsSolarPowerPredictor", <<>>),
                          CallOf("load_model", <<>>)>>
    /\ fpc' = "start_time"
    /\ UNCHANGED <<args, ts, start_date, start_time, end_time, now_read,
                   predictions, fret>>
    /\ UNCHANGED evars

\* predict_tryolabs, lines 55-62; the clock is read twice when ts is None
TryolabsResolveTs(now1, now2) ==
    /\ fpc = "start_time"
    /\ now1 <= now2
    /\ \/ /\ args.ts.kind = "none"
          /\ start_date' = DateText(now1)
          /\ start_time' = At(Floor15(now2))
          /\ end_time' = At(Floor15(now2) + Horizon)
          /\ now_read' = At(now2)
          /\ fpc' = "predict_power_output"
          /\ fret' = fret
       \/ /\ args.ts.kind = "datetime"
          /\ now1 = now2 /\ now1 = Min(Nows)
          /\ start_date' = DateText(args.ts.t)
          /\ start_time' = At(Floor15(args.ts.t))
          /\ end_time' = At(Floor15(args.ts.t) + Horizon)
          /\ fpc' = "predict_power_output"
          /\ UNCHANGED <<now_read, fret>>
       \/ /\ args.ts.kind = "str"
          /\ now1 = now2 /\ now1 = Min(Nows)
          /\ LET r == FromIsoFormat(args.ts.text)
             IN  IF r.kind = "return"
                 THEN /\ start_date' = DateText(r.value)
                      /\ start_time' = At(Floor15(r.value))
                      /\ end_time' = At(Floor15(r.value) + Horizon)
                      /\ fpc' = "predict_power_output"
                      /\ fret' = fret
                 ELSE /\ UNCHANGED <<start_date, start_time, end_time>>
                      /\ fpc' = "raised"
                      /\ fret' = r
          /\ UNCHANGED now_read
    /\ UNCHANGED <<args, ts, predictions, calls>>
    /\ UNCHANGED evars

\* predict_tryolabs, lines 65-82: the provider is asked, its frame is windowed
TryolabsPredict(p) ==
    /\ fpc = "predict_power_output"
    /\ calls' = Append(calls, CallOf("predict_power_output",
                    <<Site.latitude, Site.longitude, start_date, Site.capacity_kwp,
                      Site.orientation, Site.tilt>>))
    /\ predictions' = p
    /\ fret' = Postprocess(p, start_time.t, end_time.t)
    /\ fpc' = "returned"
    /\ UNCHANGED <<args, ts, start_date, start_time, end_time, now_read>>
    /\ UNCHANGED evars

\* the call is over: its frame is gone and nothing of it is kept
EndRunForecast ==
    /\ fpc \in {"returned", "raised"}
    /\ fpc' = "idle"
    /\ args' = NoArgs
    /\ ts' = Unset
    /\ start_date' = Unset
    /\ start_time' = Unset
    /\ end_time' = Unset
    /\ now_read' = Unset
    /\ predictions' = Unset
    /\ calls' = <<>>
    /\ fret' = Unset
    /\ UNCHANGED evars

----------------------------------------------------------------------------
(* Specifications *)

Init ==
    /\ epc = "idle"
    /\ ncalls = 0
    /\ auth_url = None
    /\ redirect_url = None
    /\ auth_code = None
    /\ res = Unset
    /\ access_token = None
    /\ eret = Unset
    /\ log = <<>>
    /\ fpc = "idle"
    /\ args = NoArgs
    /\ ts = Unset
    /\ start_date = Unset
    /\ start_time = Unset
    /\ end_time = Unset
    /\ now_read = Unset
    /\ predictions = Unset
    /\ calls = <<>>
    /\ fret = Unset

EnphaseNext ==
    \/ \E sys \in SystemIds : CallGetEnphaseData(sys)
    \/ BuildAuthUrl
    \/ \E url \in RedirectUrls : PasteRedirectUrl(url)
    \/ PostToken
    \/ \E resp \in TokenResponses : TokenResponse(resp)
    \/ GetLiveData
    \/ \E body \in LiveBodies : LiveResponse(body)
    \/ EndGetEnphaseData

ForecastNext ==
    \/ \E m \in Models, t \in Timestamps, n \in NwpSources : RunForecast(m, t, n)
    \/ \E now \in Nows : OcfResolveTs(now)
    \/ \E ok \in BOOLEAN : OcfGetNwp(ok)
    \/ \E ok \in BOOLEAN : OcfMakePvData(ok)
    \/ OcfForecastV1
    \/ TryolabsLoadModel
    \/ \E n1 \in Nows, n2 \in Nows : TryolabsResolveTs(n1, n2)
    \/ \E p \in TryolabsOutputs : TryolabsPredict(p)
    \/ EndRunForecast

\* the telemetry client alone
EnphaseSpec == Init /\ [][EnphaseNext]_vars

\* the forecast orchestration alone
ForecastSpec == Init /\ [][ForecastNext]_vars

Next == EnphaseNext \/ ForecastNext

Spec == Init /\ [][Next]_vars

----------------------------------------------------------------------------
(* Properties of the telemetry client *)

\* the steps call k has taken, in the order it took them
StepsOf(k) == SelectSeq(log, LAMBDA e : e.call = k)

Count(steps, kind) == Cardinality({i \in 1..Len(steps) : steps[i].kind = kind})

\* Unauthenticated, AuthorizationRequested, code obtained, token POST,
\* TokenExchanged, live-data GET, DataFetched
StateMachineOrder == <<"call", "auth_url", "code", "POST", "token", "GET", "data">>

\* C1: in every get_enphase_data call the OAuth2 steps happen in the order of
\* the state machine, none skipped and none reordered, and the live-data GET
\* is issued only after the token exchange of the same call has produced an
\* access token, which is the token the GET carries.
C1_StateMachineOrder ==
    \A k \in 1..ncalls :
        LET st == StepsOf(k)
        IN  /\ Len(st) <= Len(StateMachineOrder)
            /\ \A i \in 1..Len(st) : st[i].kind = StateMachineOrder[i]
            /\ \A i \in 1..Len(st) :
                  st[i].kind = "GET" =>
                      /\ st[i - 1].val \in Tokens
                      /\ st[i].val = st[i - 1].val

\* a call has gone through all four states
C1_Witness == epc = "returned" /\ Count(StepsOf(ncalls), "data") = 1

\* the pasted URL has no code= parameter and step 2 has acted on it
NoCodePasted == redirect_url # None /\ CodeOf(redirect_url) = None

\* exceptions of a failed lookup or parse, which name no stage of the flow
UnrelatedErrors == {"IndexError", "KeyError", "JSONDecodeError"}

\* C3: when the pasted redirect URL has no code= parameter, the call fails
\* with the error of a missing authorization code, not with an unrelated
\* index or parsing error, and issues no token-exchange request.
C3_MissingCodeError ==
    NoCodePasted =>
        /\ epc = "raised"
        /\ eret.kind = "raise"
        /\ eret.type \notin UnrelatedErrors
        /\ Count(StepsOf(ncalls), "POST") = 0

\* the token endpoint's answer has no access_token
LacksAccessToken(resp) ==
    \/ JsonLoads(resp.body).kind = "raise"
    \/ "access_token" \notin DOMAIN JsonLoads(resp.body).value

\* C4: when the token endpoint's answer lacks access_token, or its HTTP
\* status is an error, the call fails with an error that carries the raw
\* response body, and ends without the live-data request.
C4_TokenExchangeError ==
    (res # Unset /\ (LacksAccessToken(res) \/ res.status >= 400)) =>
        /\ epc = "raised"
        /\ eret.kind = "raise"
        /\ eret.payload = <<res.body>>
        /\ Count(StepsOf(ncalls), "GET") = 0

\* C8: when the pasted redirect URL carries the authorization code C in its
\* code= query parameter, step 2 yields exactly C, and the token-exchange
\* request sends that C.
C8_ExactCode ==
    (redirect_url # None /\ CodeOf(redirect_url) # None) =>
        /\ auth_code = CodeOf(redirect_url)
        /\ \A i \in 1..Len(StepsOf(ncalls)) :
              StepsOf(ncalls)[i].kind = "POST" =>
                  StepsOf(ncalls)[i].val = CodeOf(redirect_url)

\* C9: every call asks each endpoint at most once, and what it sends is its
\* own: the code of its POST is the code it extracted, the token of its GET
\* is the token its own POST was answered with.
C9_FreshPerCall ==
    \A k \in 1..ncalls :
        LET st == StepsOf(k)
        IN  /\ Count(st, "POST") <= 1
            /\ Count(st, "GET") <= 1
            /\ \A i \in 1..Len(st) :
                  /\ st[i].kind = "POST" =>
                        \E j \in 1..(i - 1) : st[j].kind = "code" /\ st[j].val = st[i].val
                  /\ st[i].kind = "GET" =>
                        /\ \E j \in 1..(i - 1) : st[j].kind = "POST"
                        /\ \E j \in 1..(i - 1) : st[j].kind = "token" /\ st[j].val = st[i].val

\* a second call has fetched data after a first one did, with another code
C9_Witness ==
    /\ ncalls = 2
    /\ Count(StepsOf(1), "GET") = 1
    /\ Count(StepsOf(2), "GET") = 1
    /\ StepsOf(1)[3].val # StepsOf(2)[3].val

----------------------------------------------------------------------------
(* Properties of the forecast orchestration *)

\* C2: for a provider name other than the two known ones, run_forecast fails
\* with the unsupported-provider error (the code's ValueError), whose message
\* names the value and both allowed names, and no collaborator is invoked.
C2_UnsupportedProvider ==
    (fpc # "idle" /\ args.model \notin KnownModels) =>
        /\ fpc = "raised"
        /\ fret.kind = "raise"
        /\ fret.type = "ValueError"
        /\ \E i \in 1..Len(fret.payload) : fret.payload[i] = args.model
        /\ \A m \in KnownModels : \E i \in 1..Len(fret.payload) : fret.payload[i] = m
        /\ calls = <<>>

C2_Witness == fpc = "raised" /\ args.model = "bogus" /\ fret.kind = "raise"

\* the instant the request's timestamp resolves to on the geometry-driven path
ResolvedTs ==
    CASE args.ts.kind = "none"     -> now_read.t
      [] args.ts.kind = "datetime" -> args.ts.t
      [] args.ts.kind = "str"      -> FromIsoFormat(args.ts.text).value

TryolabsReturnedFrame ==
    fpc = "returned" /\ args.model = "tryolabs" /\ predictions.kind = "frame"

\* C5: on the geometry-driven path start_time is the resolved timestamp
\* rounded down to a 15-minute boundary, end_time is 48 h later, and the
\* returned series holds exactly the raw rows with start_time <= t < end_time,
\* in the raw order, keyed by their instant.
C5_Windowing ==
    TryolabsReturnedFrame =>
        LET s == start_time.t
            e == end_time.t
            raw == predictions.rows
            out == fret.value.rows
            keep == {i \in 1..Len(raw) : s <= raw[i].date /\ raw[i].date < e}
        IN  /\ s % FifteenMin = 0
            /\ s <= ResolvedTs /\ ResolvedTs < s + FifteenMin
            /\ e = s + Horizon
            /\ fret.kind = "return" /\ fret.value.kind = "frame"
            /\ Len(out) = Cardinality(keep)
            /\ \A i \in keep :
                  LET j == Cardinality({k \in keep : k <= i})
                  IN  /\ out[j].idx = raw[i].date
                      /\ out[j].power_wh = raw[i].power_wh

\* a raw row at start_time is kept and a raw row at end_time is dropped
C5_Witness ==
    /\ TryolabsReturnedFrame
    /\ ResolvedTs # start_time.t
    /\ Len(predictions.rows) = 2
    /\ predictions.rows[1].date = end_time.t
    /\ predictions.rows[2].date = start_time.t
    /\ Len(fret.value.rows) = 1

\* C6: with an absent timestamp, on either path, the resolved start is the
\* current instant rounded down: a multiple of 15 minutes, not later than
\* the current instant.
C6_RoundedDown ==
    (args.ts.kind = "none" /\ now_read # Unset) =>
        LET s == IF args.model = "ocf" THEN ts.t ELSE start_time.t
        IN  /\ s % FifteenMin = 0
            /\ s <= now_read.t

\* C7: on the weather-driven path the series run_forecast returns covers
\* exactly the 48 h from the resolved timestamp in 15-minute steps, whatever
\* frame the provider produced.
C7_OcfWindow ==
    (fpc = "returned" /\ args.model = "ocf") =>
        /\ fret.value.kind = "frame"
        /\ Len(fret.value.rows) = Horizon \div FifteenMin
        /\ \A i \in 1..Len(fret.value.rows) :
              fret.value.rows[i].idx = ts.t + (i - 1) * FifteenMin

\* C10: on the geometry-driven path, when predict_power_output returns None,
\* run_forecast returns None: no error and no series.
C10_NoResult ==
    (fpc \in {"returned", "raised"} /\ args.model = "tryolabs"
        /\ predictions = NoPredictions) =>
        /\ fpc = "returned"
        /\ fret = Return(NoPredictions)

C10_Witness ==
    /\ fpc = "returned"
    /\ args.model = "tryolabs"
    /\ predictions = NoPredictions
    /\ Len(calls) = 3

====
